---- MODULE Spec2Model ----
(***************************************************************************)
(* State-machine model of the todo API service (axum + sqlx/SQLite).       *)
(*                                                                         *)
(* The store (table todos, its clock and its reachability) is shared by    *)
(* concurrently handled requests.  Every handler of src/src/api.rs issues  *)
(* exactly one SQL statement through the pool (ping: acquire, then ping),  *)
(* so a handler is one atomic step at the store; requests of different     *)
(* clients interleave between their arrival and that step.                 *)
(***************************************************************************)
EXTENDS Integers, Sequences, FiniteSets, TLC

\* ---------------------------------------------------------------- bounds
MaxId == 2
MaxClock == 1

Ids == 1..MaxId
Bodies == {"milk", "oat"}
Clients == {"c1", "c2"}
Sequential == {"c1"}

\* ------------------------------------------------------------- constants
OK == 200
NOT_FOUND == 404
INTERNAL_SERVER_ERROR == 500

VARIABLES
    todos,      \* the table: id -> [id, body, completed, created_at]
    now,        \* the store's clock
    up,         \* whether the store can be reached
    reqs,       \* per client: the request in flight or last answered
    lastWrite   \* history: per id ever assigned, the last write applied to its row

vars == <<todos, now, up, reqs, lastWrite>>

\* ---------------------------------------------------------------- errors
\* sqlx::Error, the variants the handlers can meet.
RowNotFound == "RowNotFound"
DriverErrors == {"PoolTimedOut", "Io"}

\* err.to_string()
to_string(err) ==
    CASE err = "RowNotFound" -> "no rows returned by a query that expected to return at least one row"
      [] err = "PoolTimedOut" -> "pool timed out while waiting for an open connection"
      [] OTHER -> "error communicating with database"

\* enum Error
NotFound == [tag |-> "NotFound", code |-> 0, body |-> ""]
Sqlx(code, body) == [tag |-> "Sqlx", code |-> code, body |-> body]
NoError == [tag |-> "none", code |-> 0, body |-> ""]

\* impl From<sqlx::Error> for Error
From(err) ==
    IF err = RowNotFound
    THEN NotFound
    ELSE Sqlx(INTERNAL_SERVER_ERROR, to_string(err))

\* Result<T, E>
Unit == <<>>
Ok(v) == [tag |-> "Ok", val |-> v, err |-> NoError]
Err(e) == [tag |-> "Err", val |-> Unit, err |-> e]
NoResult == [tag |-> "none", val |-> Unit, err |-> NoError]

\* .map_err(Into::into)
map_err(r) == IF r.tag = "Err" THEN Err(From(r.err)) ELSE r

\* ------------------------------------------------------------- responses
Response(status, kind, body) == [status |-> status, kind |-> kind, body |-> body]
NoResponse == Response(0, "none", "")

\* Mutant of into_response: the NotFound arm answers like a store failure.
into_response_all500(e) ==
    IF e.tag = "Sqlx"
    THEN Response(e.code, "text", e.body)
    ELSE Response(INTERNAL_SERVER_ERROR, "empty", "")

\* impl IntoResponse for Error
into_response(e) ==
    IF e.tag = "Sqlx"
    THEN Response(e.code, "text", e.body)
    ELSE Response(NOT_FOUND, "empty", "")

\* What axum makes of a handler's Result: Json<T>, String and () answer 200.
respond(kind, r) ==
    IF r.tag = "Err"
    THEN into_response(r.err)
    ELSE Response(OK, kind, IF kind = "empty" THEN "" ELSE r.val)

\* --------------------------------------------------------------- the rows
\* struct Todo: the four columns FromRow reads.  The table's fifth column,
\* updated_at, is written by update and read by no statement's consumer, so the
\* rows of the model do not carry it.
FromRow(row) ==
    [id |-> row.id, body |-> row.body, completed |-> row.completed,
     created_at |-> row.created_at]

\* The orders in which a select without ORDER BY may return the rows of S.
Orders(S) ==
    {s \in [1..Cardinality(S) -> S] : \A i, j \in 1..Cardinality(S) : i # j => s[i] # s[j]}

\* "select * from todos"
select_all(t, ord) == [n \in 1..Len(ord) |-> FromRow(t[ord[n]])]

\* "select * from todos where id = ?"
select_by_id(t, id) == IF id \in DOMAIN t THEN <<FromRow(t[id])>> ELSE <<>>

\* "insert into todos (body) values (?)": the table's defaults fill the rest.
insert_row(t, id, body, ts) ==
    [i \in DOMAIN t \cup {id} |->
        IF i = id
        THEN [id |-> id, body |-> body, completed |-> FALSE, created_at |-> ts]
        ELSE t[i]]

\* Mutant of update_rows: the statement lacks its where clause.
update_rows_all(t, id, body, completed) ==
    [i \in DOMAIN t |-> [t[i] EXCEPT !.body = body, !.completed = completed]]

\* "update todos set body = ?, completed = ?, updated_at = datetime('now') where id = ?"
update_rows(t, id, body, completed) ==
    [i \in DOMAIN t |->
        IF i = id
        THEN [t[i] EXCEPT !.body = body, !.completed = completed]
        ELSE t[i]]

\* Mutant of delete_rows: the where clause reads "id > ?".
delete_rows_above(t, id) == [i \in {j \in DOMAIN t : j <= id} |-> t[i]]

\* "delete from todos where id = ?"
delete_rows(t, id) == [i \in DOMAIN t \ {id} |-> t[i]]

\* ------------------------------------------------------------ the driver
\* A statement reaches the store only while it is up; otherwise the pool or
\* the connection reports one of DriverErrors (k).
fetch_all(k, rows) == IF up THEN Ok(rows) ELSE Err(k)

fetch_one(k, rows) ==
    IF ~up THEN Err(k)
    ELSE IF Len(rows) = 0 THEN Err(RowNotFound)
    ELSE Ok(rows[1])

execute(k, affected) == IF up THEN Ok(affected) ELSE Err(k)

\* -------------------------------------------------------- the repository
\* Each gives the Result the method returns (res), the table afterwards
\* (todos) and the number of rows the statement matched (nrows).
\* Mutant of list: the rows are fetched with fetch_one.
list_one(k, ord) ==
    [res |-> LET r == map_err(fetch_one(k, select_all(todos, ord)))
             IN  IF r.tag = "Ok" THEN Ok(<<r.val>>) ELSE r,
     todos |-> todos,
     nrows |-> IF up THEN Cardinality(DOMAIN todos) ELSE 0]

list(k, ord) ==
    [res |-> map_err(fetch_all(k, select_all(todos, ord))),
     todos |-> todos,
     nrows |-> IF up THEN Cardinality(DOMAIN todos) ELSE 0]

\* Mutant of read: the select lacks its where clause.
read_any(k, id) ==
    [res |-> map_err(fetch_one(k, select_all(todos, CHOOSE ord \in Orders(DOMAIN todos) : TRUE))),
     todos |-> todos,
     nrows |-> IF up THEN Cardinality(DOMAIN todos) ELSE 0]

read(k, id) ==
    [res |-> map_err(fetch_one(k, select_by_id(todos, id))),
     todos |-> todos,
     nrows |-> IF up THEN Len(select_by_id(todos, id)) ELSE 0]

\* Mutant of create: the insert has no returning clause and the row is read
\* back with a select that has no where clause.
create_readback(k, new_todo, id) ==
    LET after == IF up THEN insert_row(todos, id, new_todo.body, now) ELSE todos
        returning == IF up
                     THEN select_all(after, CHOOSE ord \in Orders(DOMAIN after) : TRUE)
                     ELSE <<>>
    IN  [res |-> map_err(fetch_one(k, returning)),
         todos |-> after,
         nrows |-> Len(returning)]

create(k, new_todo, id) ==
    LET after == IF up THEN insert_row(todos, id, new_todo.body, now) ELSE todos
        returning == IF up THEN <<FromRow(after[id])>> ELSE <<>>
    IN  [res |-> map_err(fetch_one(k, returning)),
         todos |-> after,
         nrows |-> Len(returning)]

\* Mutant of update: the statement is an upsert ("insert or replace").
update_upsert(k, id, updated_todo) ==
    LET row == [id |-> id, body |-> updated_todo.body,
                completed |-> updated_todo.completed, created_at |-> now]
        after == IF up
                 THEN [i \in DOMAIN todos \cup {id} |-> IF i = id THEN row ELSE todos[i]]
                 ELSE todos
        returning == IF up THEN select_by_id(after, id) ELSE <<>>
    IN  [res |-> map_err(fetch_one(k, returning)),
         todos |-> after,
         nrows |-> Len(returning)]

\* Mutant of update: body and completed are written by two statements, and
\* the second one is lost.
update_body_only(k, id, updated_todo) ==
    LET after == IF up
                 THEN [i \in DOMAIN todos |->
                         IF i = id THEN [todos[i] EXCEPT !.body = updated_todo.body]
                         ELSE todos[i]]
                 ELSE todos
        returning == IF up /\ id \in DOMAIN todos THEN select_by_id(after, id) ELSE <<>>
    IN  [res |-> map_err(fetch_one(k, returning)),
         todos |-> after,
         nrows |-> Len(returning)]

update(k, id, updated_todo) ==
    LET after == IF up
                 THEN update_rows(todos, id, updated_todo.body, updated_todo.completed)
                 ELSE todos
        returning == IF up /\ id \in DOMAIN todos THEN select_by_id(after, id) ELSE <<>>
    IN  [res |-> map_err(fetch_one(k, returning)),
         todos |-> after,
         nrows |-> Len(returning)]

\* Mutant of delete: the affected-row count is inspected.
delete_checked(k, id) ==
    LET after == IF up THEN delete_rows(todos, id) ELSE todos
        affected == Cardinality(DOMAIN todos) - Cardinality(DOMAIN after)
        done == execute(k, affected)
    IN  [res |-> IF done.tag = "Err" THEN Err(From(done.err))
                 ELSE IF affected = 0 THEN Err(NotFound)
                 ELSE Ok(Unit),
         todos |-> after,
         nrows |-> affected]

delete(k, id) ==
    LET after == IF up THEN delete_rows(todos, id) ELSE todos
        affected == Cardinality(DOMAIN todos) - Cardinality(DOMAIN after)
        done == execute(k, affected)
    IN  [res |-> IF done.tag = "Err" THEN Err(From(done.err)) ELSE Ok(Unit),
         todos |-> after,
         nrows |-> affected]

\* ------------------------------------------------------------ the router
\* Mutant of route: both probes are served by ping.
route_probes(method, path) ==
    CASE method = "GET" /\ path \in {"/alive", "/ready"} -> "ping"
      [] method = "GET" /\ path = "/v1/todos" -> "todo_list"
      [] method = "POST" /\ path = "/v1/todos" -> "todo_create"
      [] method = "GET" /\ path = "/v1/todos/:id" -> "todo_read"
      [] method = "PUT" /\ path = "/v1/todos/:id" -> "todo_update"
      [] method = "DELETE" /\ path = "/v1/todos/:id" -> "todo_delete"
      [] OTHER -> "none"

\* create_router: the handler a (method, path) pair is dispatched to.
route(method, path) ==
    CASE method = "GET" /\ path = "/alive" -> "alive"
      [] method = "GET" /\ path = "/ready" -> "ping"
      [] method = "GET" /\ path = "/v1/todos" -> "todo_list"
      [] method = "POST" /\ path = "/v1/todos" -> "todo_create"
      [] method = "GET" /\ path = "/v1/todos/:id" -> "todo_read"
      [] method = "PUT" /\ path = "/v1/todos/:id" -> "todo_update"
      [] method = "DELETE" /\ path = "/v1/todos/:id" -> "todo_delete"
      [] OTHER -> "none"

\* The ids the store may assign to a new row: any id no stored row has.
NewIds(t) == Ids \ DOMAIN t

\* -------------------------------------------------------------- requests
\* A request: the wire input (method, path, the :id path parameter, the JSON
\* body's fields), when it arrived (start), how far its handler is (st), the
\* number of store operations the handler performed (io), the rows its
\* statement matched (nrows), the handler's Result and the HTTP response.
Req(method, path, id, body, completed) ==
    [method |-> method, path |-> path, id |-> id, body |-> body,
     completed |-> completed, start |-> 0, st |-> "pending", io |-> 0,
     nrows |-> 0, result |-> NoResult, resp |-> NoResponse]

Idle == [Req("", "", 0, "", FALSE) EXCEPT !.st = "idle"]

Requests ==
    {Req("GET", "/alive", 0, "", FALSE), Req("GET", "/ready", 0, "", FALSE),
     Req("GET", "/v1/todos", 0, "", FALSE)}
    \cup {Req("POST", "/v1/todos", 0, b, FALSE) : b \in Bodies}
    \cup {Req(m, "/v1/todos/:id", i, "", FALSE) : m \in {"GET", "DELETE"}, i \in Ids}
    \cup {Req("PUT", "/v1/todos/:id", i, b, d) : i \in Ids, b \in Bodies, d \in BOOLEAN}

Handler(c) == route(reqs[c].method, reqs[c].path)

Pending(c, h) == reqs[c].st = "pending" /\ Handler(c) = h

\* The request of c answered with Result r, shaped as a response of `kind`.
Answered(c, kind, r, nrows) ==
    [reqs EXCEPT ![c] = [@ EXCEPT !.st = "done", !.io = @ + 1, !.nrows = nrows,
                                  !.result = r, !.resp = respond(kind, r)]]

\* The history kept per id ever assigned: which kind of request last wrote its
\* row (create, update, or a delete that found it), that request's fields and
\* the Todo the last create or update returned.
NoTodo == [id |-> 0, body |-> "", completed |-> FALSE, created_at |-> 0]
Written(by, body, completed, ret) ==
    [by |-> by, body |-> body, completed |-> completed, ret |-> ret]

\* ----------------------------------------------------------------- state
Init ==
    /\ todos = [i \in {} |-> 0]
    /\ now = 0
    /\ up = TRUE
    /\ reqs = [c \in Clients |-> Idle]
    /\ lastWrite = [i \in {} |-> 0]

\* The request r as it arrives: a create, whose answer carries a timestamp,
\* is stamped with the store clock's reading at its arrival.
Arrived(r) == [r EXCEPT !.start = IF r.method = "POST" THEN now ELSE 0]

\* A client sends one of the requests rs; one request per client is in flight.
Send(c, rs) ==
    /\ reqs[c].st \in {"idle", "done"}
    /\ \E r \in rs : reqs' = [reqs EXCEPT ![c] = Arrived(r)]
    /\ UNCHANGED <<todos, now, up, lastWrite>>

\* router.rs: get(|| async { "ok" })
alive(c) ==
    /\ Pending(c, "alive")
    /\ reqs' = [reqs EXCEPT ![c] = [@ EXCEPT !.st = "done", !.result = Ok("ok"),
                                             !.resp = respond("text", Ok("ok"))]]
    /\ UNCHANGED <<todos, now, up, lastWrite>>

\* api.rs ping: dbpool.acquire().await?
ping_acquire(c) ==
    /\ Pending(c, "ping")
    /\ \E k \in DriverErrors :
         LET conn == map_err(IF up THEN Ok(Unit) ELSE Err(k))
         IN  reqs' = IF conn.tag = "Err"
                     THEN Answered(c, "text", conn, 0)
                     ELSE [reqs EXCEPT ![c] = [@ EXCEPT !.st = "acquired", !.io = @ + 1]]
    /\ UNCHANGED <<todos, now, up, lastWrite>>

\* api.rs ping: conn.ping().await.map(|_| "ok".to_string()).map_err(Into::into)
ping(c) ==
    /\ reqs[c].st = "acquired"
    /\ \E k \in DriverErrors :
         LET pong == IF up THEN Ok("ok") ELSE Err(k)
         IN  reqs' = Answered(c, "text", map_err(pong), 0)
    /\ UNCHANGED <<todos, now, up, lastWrite>>

todo_list(c) ==
    /\ Pending(c, "todo_list")
    /\ \E k \in DriverErrors, ord \in Orders(DOMAIN todos) :
         LET r == list(k, ord)
         IN  /\ reqs' = Answered(c, "json", r.res, r.nrows)
             /\ todos' = r.todos
    /\ UNCHANGED <<now, up, lastWrite>>

todo_read(c) ==
    /\ Pending(c, "todo_read")
    /\ \E k \in DriverErrors :
         LET r == read(k, reqs[c].id)
         IN  /\ reqs' = Answered(c, "json", r.res, r.nrows)
             /\ todos' = r.todos
    /\ UNCHANGED <<now, up, lastWrite>>

todo_create(c) ==
    /\ Pending(c, "todo_create")
    /\ \E k \in DriverErrors, id \in NewIds(todos) :
         LET r == create(k, [body |-> reqs[c].body], id)
         IN  /\ reqs' = Answered(c, "json", r.res, r.nrows)
             /\ todos' = r.todos
             /\ lastWrite' =
                  IF r.res.tag = "Ok"
                  THEN [i \in DOMAIN lastWrite \cup {r.res.val.id} |->
                          IF i = r.res.val.id
                          THEN Written("create", reqs[c].body, FALSE, r.res.val)
                          ELSE lastWrite[i]]
                  ELSE lastWrite
    /\ UNCHANGED <<now, up>>

todo_update(c) ==
    /\ Pending(c, "todo_update")
    /\ \E k \in DriverErrors :
         LET r == update(k, reqs[c].id, [body |-> reqs[c].body, completed |-> reqs[c].completed])
         IN  /\ reqs' = Answered(c, "json", r.res, r.nrows)
             /\ todos' = r.todos
             /\ lastWrite' =
                  IF r.res.tag = "Ok"
                  THEN [lastWrite EXCEPT ![reqs[c].id] =
                          Written("update", reqs[c].body, reqs[c].completed, r.res.val)]
                  ELSE lastWrite
    /\ UNCHANGED <<now, up>>

todo_delete(c) ==
    /\ Pending(c, "todo_delete")
    /\ \E k \in DriverErrors :
         LET r == delete(k, reqs[c].id)
         IN  /\ reqs' = Answered(c, "empty", r.res, r.nrows)
             /\ todos' = r.todos
             /\ lastWrite' =
                  IF r.res.tag = "Ok" /\ reqs[c].id \in DOMAIN todos
                  THEN [lastWrite EXCEPT ![reqs[c].id] = Written("delete", "", FALSE, NoTodo)]
                  ELSE lastWrite
    /\ UNCHANGED <<now, up>>

\* The environment: time passes; the store becomes unreachable and comes back.
Tick ==
    /\ now < MaxClock
    /\ now' = now + 1
    /\ UNCHANGED <<todos, up, reqs, lastWrite>>

StoreDown ==
    /\ up
    /\ up' = FALSE
    /\ UNCHANGED <<todos, now, reqs, lastWrite>>

StoreUp ==
    /\ ~up
    /\ up' = TRUE
    /\ UNCHANGED <<todos, now, reqs, lastWrite>>

\* The requests for single todos, and the writes among them.
TodoRequests == {r \in Requests : r.path = "/v1/todos/:id" \/ r.method = "POST"}
WriteRequests == {r \in Requests : r.method \in {"POST", "PUT"}}

\* One client uses the whole API against a store that may fail, within one
\* reading of the store's clock.
Next ==
    \/ \E c \in Sequential : Send(c, Requests)
    \/ \E c \in Sequential : alive(c)
    \/ \E c \in Sequential : ping_acquire(c)
    \/ \E c \in Sequential : ping(c)
    \/ \E c \in Sequential : todo_list(c)
    \/ \E c \in Sequential : todo_read(c)
    \/ \E c \in Sequential : todo_create(c)
    \/ \E c \in Sequential : todo_update(c)
    \/ \E c \in Sequential : todo_delete(c)
    \/ StoreDown
    \/ StoreUp

Spec == Init /\ [][Next]_vars

\* One client creates, reads, updates and deletes todos while time passes.
NextClock ==
    \/ \E c \in Sequential : Send(c, TodoRequests)
    \/ \E c \in Sequential : todo_read(c)
    \/ \E c \in Sequential : todo_create(c)
    \/ \E c \in Sequential : todo_update(c)
    \/ \E c \in Sequential : todo_delete(c)
    \/ Tick

SpecClock == Init /\ [][NextClock]_vars

\* Several clients write at once: their creates and updates are in flight
\* together and reach the store in any order.
NextWriters ==
    \/ \E c \in Clients : Send(c, WriteRequests)
    \/ \E c \in Clients : todo_create(c)
    \/ \E c \in Clients : todo_update(c)

SpecWriters == Init /\ [][NextWriters]_vars

\* ================================================================ claims
\* The step in which the handler h answers the request of client c.
Answers(c, h) == Handler(c) = h /\ reqs[c].st # "done" /\ reqs'[c].st = "done"

Details == {to_string(k) : k \in DriverErrors}
Missing(resp) == resp.status = NOT_FOUND /\ resp.kind = "empty" /\ resp.body = ""

\* C1: delete is idempotent.  A delete never answers NotFound, whether or not a
\* row has the id; whenever the store executes the statement it answers
\* success (200, empty body), the table afterwards is the table before without
\* that id, and a second delete of the same id succeeds again and leaves the
\* table as the first delete left it.
DeleteIdempotent ==
    [][\A c \in Clients :
         Answers(c, "todo_delete") =>
           LET id == reqs[c].id
               a == reqs'[c]
           IN  /\ a.result.err.tag # "NotFound"
               /\ a.resp.status # NOT_FOUND
               /\ up => /\ a.result.tag = "Ok"
                        /\ a.resp = Response(OK, "empty", "")
                        /\ todos' = [i \in DOMAIN todos \ {id} |-> todos[i]]
                        /\ \A k \in DriverErrors :
                             /\ (delete(k, id).res.tag)' = "Ok"
                             /\ (delete(k, id).todos)' = todos'
      ]_vars

\* C1 witness: a delete of an id no row has was answered with success.
DeleteOfMissingSucceeded ==
    \E c \in Clients :
        /\ reqs[c].st = "done" /\ Handler(c) = "todo_delete"
        /\ reqs[c].nrows = 0 /\ reqs[c].result.tag = "Ok"
        /\ reqs[c].resp.status = OK
        /\ DOMAIN todos # {}

\* C2: a delete is a hard delete.  An id whose row a delete removed has no row
\* until a later create is assigned that id; while that is so, a read of it
\* that the store executes answers NotFound (404, empty body) and no list
\* contains it.
DeletedStaysGone ==
    [][/\ \A i \in DOMAIN lastWrite' :
            lastWrite'[i].by = "delete" => i \notin DOMAIN todos'
       /\ \A c \in Clients :
            /\ (/\ Answers(c, "todo_read") /\ up
                /\ reqs[c].id \in DOMAIN lastWrite
                /\ lastWrite[reqs[c].id].by = "delete")
               => /\ reqs'[c].result.tag = "Err"
                  /\ reqs'[c].result.err.tag = "NotFound"
                  /\ Missing(reqs'[c].resp)
            /\ (Answers(c, "todo_list") /\ up)
               => /\ reqs'[c].result.tag = "Ok"
                  /\ \A n \in 1..Len(reqs'[c].result.val) :
                       lastWrite[reqs'[c].result.val[n].id].by # "delete"
      ]_vars

\* C2 witness: a read of an id whose row was deleted was answered 404.
ReadAfterDelete ==
    \E c \in Clients :
        /\ reqs[c].st = "done" /\ Handler(c) = "todo_read"
        /\ Missing(reqs[c].resp)
        /\ reqs[c].id \in DOMAIN lastWrite
        /\ lastWrite[reqs[c].id].by = "delete"

\* C3: an update of an id that has no row, when the store executes it, answers
\* NotFound (404, empty body) and leaves the table as it was: no row is
\* created and no row is modified.
UpdateMissingNotFound ==
    [][\A c \in Clients :
         (Answers(c, "todo_update") /\ up /\ reqs[c].id \notin DOMAIN todos)
         => /\ reqs'[c].result.tag = "Err"
            /\ reqs'[c].result.err.tag = "NotFound"
            /\ Missing(reqs'[c].resp)
            /\ todos' = todos
      ]_vars

\* C3 witness: an update matched no row in a table that holds another row.
UpdateOfMissingAnswered ==
    \E c \in Clients :
        /\ reqs[c].st = "done" /\ Handler(c) = "todo_update"
        /\ reqs[c].nrows = 0 /\ Missing(reqs[c].resp)
        /\ reqs[c].id \notin DOMAIN todos
        /\ DOMAIN todos # {}

\* C7: a list that the store executes answers success with exactly the stored
\* todos, each once, in some order (the empty sequence for the empty table),
\* and does not change the table.  The table starts empty, grows by one row
\* with every successful create, shrinks by one with every delete that finds
\* its row and keeps its size otherwise: after N creates and no delete a list
\* has N todos.
ListIsTheStore ==
    [][/\ \A c \in Clients :
            (Answers(c, "todo_list") /\ up)
            => LET val == reqs'[c].result.val
               IN  /\ reqs'[c].result.tag = "Ok"
                   /\ reqs'[c].resp = Response(OK, "json", val)
                   /\ Len(val) = Cardinality(DOMAIN todos)
                   /\ {val[n] : n \in 1..Len(val)}
                        = {[id |-> i, body |-> todos[i].body,
                            completed |-> todos[i].completed,
                            created_at |-> todos[i].created_at] : i \in DOMAIN todos}
                   /\ todos' = todos
       /\ Cardinality(DOMAIN todos') - Cardinality(DOMAIN todos)
            = (IF \E c \in Clients :
                    Answers(c, "todo_create") /\ reqs'[c].result.tag = "Ok"
               THEN 1 ELSE 0)
              - (IF \E c \in Clients :
                      /\ Answers(c, "todo_delete") /\ reqs'[c].result.tag = "Ok"
                      /\ reqs[c].id \in DOMAIN todos
                 THEN 1 ELSE 0)
      ]_vars

\* C7 witness: a list of a table of two rows was answered with two todos.
ListedTwo ==
    \E c \in Clients :
        /\ reqs[c].st = "done" /\ Handler(c) = "todo_list"
        /\ reqs[c].resp.status = OK
        /\ Len(reqs[c].result.val) = 2
        /\ Cardinality(DOMAIN todos) = 2

\* C8: every answer is a success (200), NotFound (404, empty body) or a
\* StoreFailure (500, the driver's error text as the body), and nothing else.
\* A read or update that the store executes and that matches no row answers
\* NotFound, and only those do; a statement the store cannot execute answers
\* StoreFailure, and only those do; a delete never answers 404.
ErrorMapping ==
    [][\A c \in Clients :
         (reqs[c].st # "done" /\ reqs'[c].st = "done")
         => LET h == Handler(c)
                a == reqs'[c]
                nomatch == h \in {"todo_read", "todo_update"} /\ reqs[c].id \notin DOMAIN todos
            IN  /\ a.result.tag \in {"Ok", "Err"}
                /\ a.result.tag = "Ok" <=> a.resp.status = OK
                /\ a.result.tag = "Err" => a.result.err.tag \in {"NotFound", "Sqlx"}
                /\ a.result.err.tag = "NotFound" <=> Missing(a.resp)
                /\ a.result.err.tag = "Sqlx"
                     <=> /\ a.resp.status = INTERNAL_SERVER_ERROR
                         /\ a.resp.kind = "text"
                         /\ a.resp.body \in Details
                /\ a.result.err.tag = "NotFound" <=> (up /\ nomatch)
                /\ a.result.err.tag = "Sqlx" <=> (~up /\ h # "alive")
                /\ h = "todo_delete" => a.resp.status # NOT_FOUND
      ]_vars

\* C8 witness: a delete the store could not execute was answered 500 with the
\* driver's error text.
StoreFailureAnswered ==
    \E c \in Clients :
        /\ reqs[c].st = "done" /\ Handler(c) = "todo_delete"
        /\ reqs[c].resp = Response(INTERNAL_SERVER_ERROR, "text", to_string("PoolTimedOut"))

\* C10: GET /alive is answered 200 "ok" without any store operation, whether
\* or not the store can be reached.  GET /ready is answered 200 "ok" when the
\* store is reached (a connection acquired and pinged) and 500 with the
\* driver's error text when acquiring or pinging fails.  No step of either
\* probe changes the table.
Probes ==
    [][\A c \in Clients :
         /\ (reqs[c].path \in {"/alive", "/ready"} /\ reqs'[c] # reqs[c] /\ reqs[c].st \in {"pending", "acquired"})
            => todos' = todos
         /\ (reqs[c].path = "/alive" /\ reqs[c].st # "done" /\ reqs'[c].st = "done")
            => /\ reqs'[c].resp = Response(OK, "text", "ok")
               /\ reqs'[c].io = 0
         /\ (reqs[c].path = "/ready" /\ reqs[c].st # "done" /\ reqs'[c].st = "done")
            => IF up
               THEN /\ reqs'[c].resp = Response(OK, "text", "ok")
                    /\ reqs'[c].io = 2
               ELSE /\ reqs'[c].resp.status = INTERNAL_SERVER_ERROR
                    /\ reqs'[c].resp.kind = "text"
                    /\ reqs'[c].resp.body \in Details
      ]_vars

\* C10 witness: /alive stands answered 200 while the store is unreachable.
AliveWhileStoreDown ==
    \E c \in Clients :
        /\ reqs[c].st = "done" /\ reqs[c].path = "/alive"
        /\ reqs[c].resp.status = OK
        /\ ~up

\* C4: an update of an id that has a row, when the store executes it, answers
\* a Todo that is the row now stored: its body and completed are the
\* request's, its id and created_at are those the row had before.  The table
\* keeps its ids and every other row is left as it was.
UpdateExisting ==
    [][\A c \in Clients :
         (Answers(c, "todo_update") /\ up /\ reqs[c].id \in DOMAIN todos)
         => LET id == reqs[c].id
                val == reqs'[c].result.val
            IN  /\ reqs'[c].result.tag = "Ok"
                /\ reqs'[c].resp = Response(OK, "json", val)
                /\ val = [id |-> id, body |-> reqs[c].body,
                          completed |-> reqs[c].completed,
                          created_at |-> todos[id].created_at]
                /\ DOMAIN todos' = DOMAIN todos
                /\ todos'[id] = [id |-> val.id, body |-> val.body,
                                 completed |-> val.completed,
                                 created_at |-> val.created_at]
                /\ \A j \in DOMAIN todos \ {id} : todos'[j] = todos[j]
      ]_vars

\* C4 witness: a row created earlier was updated to another body and to
\* completed while a second row is stored.
UpdatedOlderRow ==
    \E c \in Clients :
        /\ reqs[c].st = "done" /\ Handler(c) = "todo_update"
        /\ reqs[c].result.tag = "Ok"
        /\ reqs[c].result.val.completed
        /\ reqs[c].result.val.created_at < now
        /\ \E j \in DOMAIN todos :
             j # reqs[c].id /\ todos[j].body # reqs[c].body /\ ~todos[j].completed

\* C5: a create that the store executes adds exactly one row and answers it:
\* the Todo has the request's body, completed false, a created_at no earlier
\* than the request's arrival and an id no stored row had; the rows stored
\* before are left as they were.  Every stored row is kept under its own id,
\* so no two stored todos share an id.
CreateAddsOne ==
    [][/\ \A c \in Clients :
            (Answers(c, "todo_create") /\ up)
            => LET val == reqs'[c].result.val
               IN  /\ reqs'[c].result.tag = "Ok"
                   /\ reqs'[c].resp = Response(OK, "json", val)
                   /\ val.body = reqs[c].body
                   /\ val.completed = FALSE
                   /\ val.created_at >= reqs[c].start
                   /\ val.id \notin DOMAIN todos
                   /\ DOMAIN todos' = DOMAIN todos \cup {val.id}
                   /\ todos'[val.id] = [id |-> val.id, body |-> val.body,
                                        completed |-> val.completed,
                                        created_at |-> val.created_at]
                   /\ \A j \in DOMAIN todos : todos'[j] = todos[j]
       /\ \A i \in DOMAIN todos' : todos'[i].id = i
      ]_vars

\* C5 witness: a create that arrived before the clock advanced was answered
\* with a later created_at, into a table that already held a row.
CreatedSecondRow ==
    \E c \in Clients :
        /\ reqs[c].st = "done" /\ Handler(c) = "todo_create"
        /\ reqs[c].result.tag = "Ok"
        /\ reqs[c].result.val.created_at > reqs[c].start
        /\ Cardinality(DOMAIN todos) = 2

\* C6: a read of an id whose row was last written by its create (no update
\* and no delete of that id since), when the store executes it, answers a
\* Todo equal in id, body, completed and created_at to the one the create
\* answered, whatever was done to other ids in between.
CreateReadRoundTrip ==
    [][\A c \in Clients :
         (/\ Answers(c, "todo_read") /\ up
          /\ reqs[c].id \in DOMAIN lastWrite
          /\ lastWrite[reqs[c].id].by = "create")
         => /\ reqs'[c].result = Ok(lastWrite[reqs[c].id].ret)
            /\ reqs'[c].resp = Response(OK, "json", lastWrite[reqs[c].id].ret)
            /\ reqs'[c].result.val.id = reqs[c].id
      ]_vars

\* C6 witness: a created row was read back after another id was updated.
ReadBackCreated ==
    \E c \in Clients :
        /\ reqs[c].st = "done" /\ Handler(c) = "todo_read"
        /\ reqs[c].result.tag = "Ok"
        /\ reqs[c].id \in DOMAIN lastWrite
        /\ lastWrite[reqs[c].id].by = "create"
        /\ reqs[c].result.val = lastWrite[reqs[c].id].ret
        /\ \E j \in DOMAIN lastWrite :
             /\ j < reqs[c].id /\ lastWrite[j].by = "update"
             /\ lastWrite[j].ret.created_at < reqs[c].result.val.created_at

\* C9: updates of one id that are in flight together apply one at a time.
\* The stored row of an id last written by an update has the body and the
\* completed of that one update, the last the store executed, and every
\* answered update returned its own body and completed.
LastWriteWins ==
    /\ \A i \in DOMAIN todos :
         (i \in DOMAIN lastWrite /\ lastWrite[i].by = "update")
         => /\ todos[i].body = lastWrite[i].body
            /\ todos[i].completed = lastWrite[i].completed
    /\ \A c \in Clients :
         (reqs[c].st = "done" /\ Handler(c) = "todo_update" /\ reqs[c].result.tag = "Ok")
         => /\ reqs[c].result.val.id = reqs[c].id
            /\ reqs[c].result.val.body = reqs[c].body
            /\ reqs[c].result.val.completed = reqs[c].completed

\* C9 witness: two clients' updates of one id, differing in body and in
\* completed, are both answered, and the row is the later one's.
TwoUpdatesOneRow ==
    \E c, d \in Clients :
        /\ c # d
        /\ reqs[c].st = "done" /\ Handler(c) = "todo_update" /\ reqs[c].result.tag = "Ok"
        /\ reqs[d].st = "done" /\ Handler(d) = "todo_update" /\ reqs[d].result.tag = "Ok"
        /\ reqs[c].id = reqs[d].id
        /\ reqs[c].body # reqs[d].body
        /\ reqs[c].completed # reqs[d].completed
        /\ todos[reqs[d].id].body = reqs[d].body
        /\ todos[reqs[d].id].completed = reqs[d].completed

====
